---------------------------- MODULE Spec2Model ----------------------------
(***************************************************************************)
(* Model of src/src/html_extractor.py (class HTMLGoogleMapsExtractor):     *)
(* the batch extraction of business records from a parsed results page,    *)
(* the per-fragment record extractor, the city inference on address text   *)
(* and the delivery loop of process_html_file.                             *)
(*                                                                         *)
(* Text is a sequence of characters; a character is a one-letter string.   *)
(* Letters outside ASCII are named ("eacute", "Eacute", "icirc") and the   *)
(* middle dot is "MIDDOT".  An optional value (None or a value) is a       *)
(* sequence of length 0 or 1.                                              *)
(***************************************************************************)
EXTENDS Integers, Sequences, FiniteSets, TLC

(***************************************************************************)
(* Characters and character classes of the regular expressions.            *)
(***************************************************************************)
UpperLetters ==
    <<"A","B","C","D","E","F","G","H","I","J","K","L","M",
      "N","O","P","Q","R","S","T","U","V","W","X","Y","Z","Eacute","Icirc">>

LowerLetters ==
    <<"a","b","c","d","e","f","g","h","i","j","k","l","m",
      "n","o","p","q","r","s","t","u","v","w","x","y","z","eacute","icirc">>

Range(s) == { s[k] : k \in DOMAIN s }

AsciiUpper == { UpperLetters[k] : k \in 1..26 }

AsciiLower == { LowerLetters[k] : k \in 1..26 }

\* U+00C0..U+00FF: the accented letters, capital and small
Latin1Letters == {"Eacute", "Icirc", "eacute", "icirc"}

Digits == {"0","1","2","3","4","5","6","7","8","9"}

\* what \s matches and what str.strip() removes
Whitespace == {" ", "LF"}

\* \w
WordChars == AsciiUpper \cup AsciiLower \cup Latin1Letters \cup Digits \cup {"_"}

\* [A-ZÀ-Ÿ]: the range À-Ÿ runs from U+00C0 to U+0178 and so also holds é, î
CityFirstClass == AsciiUpper \cup Latin1Letters

\* [A-Za-zÀ-ÿ\s\-\']
CityRunClass == AsciiUpper \cup AsciiLower \cup Latin1Letters \cup Whitespace \cup {"-", "'"}

\* the complement of [^\w\s\-\'À-ÿ]
CityKeepClass == WordChars \cup Whitespace \cup {"-", "'"} \cup Latin1Letters

(***************************************************************************)
(* str methods.                                                            *)
(***************************************************************************)
\* str.lower(), character by character
LowerOf == [c \in { UpperLetters[k] : k \in DOMAIN UpperLetters } |->
               LowerLetters[CHOOSE k \in DOMAIN UpperLetters : UpperLetters[k] = c]]

LowerChar(c) == IF c \in DOMAIN LowerOf THEN LowerOf[c] ELSE c

\* str.lower()
RECURSIVE Lower(_)
Lower(s) == IF s = <<>> THEN <<>> ELSE <<LowerChar(Head(s))>> \o Lower(Tail(s))

RECURSIVE LStrip(_)
LStrip(s) ==
    IF s = <<>> THEN s
    ELSE IF Head(s) \in Whitespace THEN LStrip(Tail(s)) ELSE s

RECURSIVE RStrip(_)
RStrip(s) ==
    IF s = <<>> THEN s
    ELSE IF s[Len(s)] \in Whitespace THEN RStrip(SubSeq(s, 1, Len(s) - 1)) ELSE s

\* str.strip()
Strip(s) == RStrip(LStrip(s))

\* p occurs in s starting at index k
OccursAt(p, s, k) ==
    /\ k >= 1
    /\ k + Len(p) - 1 <= Len(s)
    /\ \A n \in 1..Len(p) : s[k + n - 1] = p[n]

\* p in s
Contains(p, s) == \E k \in 1..(Len(s) - Len(p) + 1) : OccursAt(p, s, k)

\* the characters of s that are in class keep, in order: re.sub of the
\* complement class by ''
RECURSIVE KeepOnly(_, _)
KeepOnly(s, keep) ==
    IF s = <<>> THEN <<>>
    ELSE IF Head(s) \in keep
         THEN <<Head(s)>> \o KeepOnly(Tail(s), keep)
         ELSE KeepOnly(Tail(s), keep)

\* str.split(sep) for a one-character separator: the pieces between the
\* separators, empty pieces kept
RECURSIVE SplitFrom(_, _, _)
SplitFrom(s, sep, cur) ==
    IF s = <<>> THEN <<cur>>
    ELSE IF Head(s) = sep
         THEN <<cur>> \o SplitFrom(Tail(s), sep, <<>>)
         ELSE SplitFrom(Tail(s), sep, Append(cur, Head(s)))

Split(s, sep) == SplitFrom(s, sep, <<>>)

(***************************************************************************)
(* _extract_city_from_address                                              *)
(***************************************************************************)
\* \b at the gap before index k of s
WordBoundary(s, k) ==
    LET before == k - 1 >= 1 /\ k - 1 <= Len(s) /\ s[k - 1] \in WordChars
        after  == k >= 1 /\ k <= Len(s) /\ s[k] \in WordChars
    IN  before # after

\* the last index of the run of characters of class cls that starts at k
\* (k - 1 when s[k] is not in cls)
RECURSIVE RunEnd(_, _, _)
RunEnd(s, k, cls) ==
    IF k <= Len(s) /\ s[k] \in cls THEN RunEnd(s, k + 1, cls) ELSE k - 1

\* the match of \b\d{5}\s+([A-ZÀ-Ÿ][A-Za-zÀ-ÿ\s\-\']+) that starts at k:
\* <<group 1>> or <<>>.  \s+ is greedy and the group cannot start on
\* whitespace, so the group starts right after the whole whitespace run.
CityPatternAt(s, k) ==
    IF /\ WordBoundary(s, k)
       /\ k + 4 <= Len(s)
       /\ \A n \in k..(k + 4) : s[n] \in Digits
    THEN LET g == RunEnd(s, k + 5, Whitespace) + 1
         IN  IF /\ g > k + 5
                /\ g + 1 <= Len(s)
                /\ s[g] \in CityFirstClass
                /\ s[g + 1] \in CityRunClass
             THEN <<SubSeq(s, g, RunEnd(s, g + 1, CityRunClass))>>
             ELSE <<>>
    ELSE <<>>

\* re.search(city_pattern, address): the leftmost match, tried from index k on
RECURSIVE CityPatternSearch(_, _)
CityPatternSearch(s, k) ==
    IF k > Len(s) THEN <<>>
    ELSE IF CityPatternAt(s, k) # <<>> THEN CityPatternAt(s, k)
         ELSE CityPatternSearch(s, k + 1)

common_cities ==
    << <<"P","a","r","i","s">>,
       <<"L","y","o","n">>,
       <<"M","a","r","s","e","i","l","l","e">>,
       <<"T","o","u","l","o","u","s","e">>,
       <<"N","i","c","e">>,
       <<"N","a","n","t","e","s">>,
       <<"S","t","r","a","s","b","o","u","r","g">>,
       <<"M","o","n","t","p","e","l","l","i","e","r">>,
       <<"B","o","r","d","e","a","u","x">>,
       <<"L","i","l","l","e">>,
       <<"R","e","n","n","e","s">>,
       <<"R","e","i","m","s">>,
       <<"L","e"," ","H","a","v","r","e">>,
       <<"S","a","i","n","t","-","Eacute","t","i","e","n","n","e">>,
       <<"T","o","u","l","o","n">>,
       <<"G","r","e","n","o","b","l","e">>,
       <<"D","i","j","o","n">>,
       <<"A","n","g","e","r","s">>,
       <<"N","icirc","m","e","s">>,
       <<"V","i","l","l","e","u","r","b","a","n","n","e">> >>

\* 'Non spécifiée'
NonSpecifiee == <<"N","o","n"," ","s","p","eacute","c","i","f","i","eacute","e">>

\* 'Non spécifié'
NonSpecifie == <<"N","o","n"," ","s","p","eacute","c","i","f","i","eacute">>

\* the known city that stands first in the text, not first in the list
KnownCityMutTextOrder(address) ==
    LET lowered == Lower(address)
        at(n)   == { k \in 1..Len(lowered) : OccursAt(Lower(common_cities[n]), lowered, k) }
        hits    == { n \in DOMAIN common_cities : at(n) # {} }
        first(n) == CHOOSE k \in at(n) : \A j \in at(n) : k <= j
    IN  IF hits = {} THEN <<>>
        ELSE <<common_cities[CHOOSE n \in hits :
                   \A m \in hits : first(n) < first(m) \/ (first(n) = first(m) /\ n <= m)]>>

\* for city in common_cities: if city.lower() in address.lower(): return city
\* <<city>> for the first city of the list found, <<>> for none
KnownCity(address) ==
    LET lowered == Lower(address)
        hits == { n \in DOMAIN common_cities :
                    Contains(Lower(common_cities[n]), lowered) }
    IN  IF hits = {} THEN <<>>
        ELSE <<common_cities[CHOOSE n \in hits : \A m \in hits : n <= m]>>

\* re.sub(r'\b\d{5}\b', '', s): every standalone 5-digit token removed,
\* scanning from the left
RECURSIVE RemovePostalCodes(_, _)
RemovePostalCodes(s, k) ==
    IF k > Len(s) THEN <<>>
    ELSE IF /\ WordBoundary(s, k)
            /\ k + 4 <= Len(s)
            /\ \A n \in k..(k + 4) : s[n] \in Digits
            /\ WordBoundary(s, k + 5)
         THEN RemovePostalCodes(s, k + 5)
         ELSE <<s[k]>> \o RemovePostalCodes(s, k + 1)

\* the last part taken with its postal code left in
LastPartCityMutKeepCode(address) ==
    LET parts == Split(address, ",")
    IN  IF Len(parts) >= 2
        THEN LET last_part == Strip(Strip(parts[Len(parts)]))
             IN  IF last_part # <<>> /\ Len(last_part) > 2
                 THEN <<last_part>> ELSE <<>>
        ELSE <<>>

\* lines 517-523, the last-part fallback: <<city>> or <<>>
LastPartCity(address) ==
    LET parts == Split(address, ",")
    IN  IF Len(parts) >= 2
        THEN LET last_part == Strip(RemovePostalCodes(Strip(parts[Len(parts)]), 1))
             IN  IF last_part # <<>> /\ Len(last_part) > 2
                 THEN <<last_part>> ELSE <<>>
        ELSE <<>>

\* the three rules in the order the method tries them
CityRulesMutKnownFirst(address) ==
    LET match == CityPatternSearch(address, 1)
    IN  IF KnownCity(address) # <<>> THEN KnownCity(address)[1]
        ELSE IF match # <<>>
        THEN Strip(KeepOnly(Strip(match[1]), CityKeepClass))
        ELSE IF LastPartCity(address) # <<>> THEN LastPartCity(address)[1]
        ELSE NonSpecifiee

_extract_city_from_address(address) ==
    LET match == CityPatternSearch(address, 1)
    IN  IF match # <<>>
        THEN Strip(KeepOnly(Strip(match[1]), CityKeepClass))
        ELSE IF KnownCity(address) # <<>> THEN KnownCity(address)[1]
        ELSE IF LastPartCity(address) # <<>> THEN LastPartCity(address)[1]
        ELSE NonSpecifiee

(***************************************************************************)
(* Python values.                                                          *)
(***************************************************************************)
\* None
None == <<>>

\* a value that is present
Some(v) == <<v>>

\* bool() of an optional string: not None and not ''
Truthy(opt) == opt # <<>> /\ opt[1] # <<>>

\* dict.setdefault(key, value)
SetDefault(d, key, value) == IF key \in DOMAIN d THEN d ELSE d @@ (key :> value)

\* d[key] = value
Put(d, key, value) == (key :> value) @@ d

\* int() of a run of decimal digits
DigitValue(c) ==
    CASE c = "0" -> 0 [] c = "1" -> 1 [] c = "2" -> 2 [] c = "3" -> 3
      [] c = "4" -> 4 [] c = "5" -> 5 [] c = "6" -> 6 [] c = "7" -> 7
      [] c = "8" -> 8 [] c = "9" -> 9

RECURSIVE IntOfDigits(_)
IntOfDigits(s) ==
    IF s = <<>> THEN 0
    ELSE 10 * IntOfDigits(SubSeq(s, 1, Len(s) - 1)) + DigitValue(s[Len(s)])

\* str.replace(',', '.')
RECURSIVE CommaToPoint(_)
CommaToPoint(s) ==
    IF s = <<>> THEN <<>>
    ELSE <<IF Head(s) = "," THEN "." ELSE Head(s)>> \o CommaToPoint(Tail(s))

\* float(s) for the plain decimal notation: surrounding whitespace, an
\* optional sign, digits with at most one point, at least one digit.
\* Some([neg, num, scale]) stands for the number (-1)^neg * num / 10^scale,
\* trailing zeros of the fraction dropped; None stands for ValueError.
\* (Exponents, inf, nan and digit separators are not modelled: no text of
\* the model uses them.)
RECURSIVE Normalised(_)
Normalised(v) ==
    IF v.scale > 0 /\ v.num % 10 = 0
    THEN Normalised([v EXCEPT !.num = v.num \div 10, !.scale = v.scale - 1])
    ELSE v

ParseFloat(s) ==
    LET t      == Strip(s)
        signed == t # <<>> /\ t[1] \in {"+", "-"}
        body   == IF signed THEN Tail(t) ELSE t
        points == { k \in DOMAIN body : body[k] = "." }
        digits == KeepOnly(body, Digits)
    IN  IF /\ \A k \in DOMAIN body : body[k] \in Digits \cup {"."}
           /\ Cardinality(points) <= 1
           /\ digits # <<>>
        THEN Some(Normalised(
                 [neg   |-> signed /\ t[1] = "-" /\ IntOfDigits(digits) # 0,
                  num   |-> IntOfDigits(digits),
                  scale |-> IF points = {} THEN 0
                            ELSE Len(body) - (CHOOSE k \in points : TRUE)]))
        ELSE None

(***************************************************************************)
(* A listing fragment: what the finds of _extract_single_business see in   *)
(* one container.                                                          *)
(*   name   : None, or the text of the first div whose class matches       *)
(*            qBF1Pd\s+fontHeadlineSmall                                   *)
(*   rating : None, or the first span of class ZkP5Je: the text of its     *)
(*            MW4etd span and of its UY7F9 span, each None when missing    *)
(*   infos  : the texts of the W4Efsd divs, in document order              *)
(*   phone  : None, or the text of the first UsdlK span                    *)
(*   links  : the anchors in document order, each with its class tokens    *)
(*            and its href (None when it has none)                         *)
(*   spans  : the spans that carry a style attribute, in document order    *)
(*   fault  : "none"; "inner" when a call inside the try block of          *)
(*            _extract_single_business raises; "escape" when an exception  *)
(*            leaves _extract_single_business                              *)
(***************************************************************************)
\* element.get_text(strip=True) of an element with one text node
GetText(text) == Strip(text)

address_keywords ==
    << <<"r","u","e">>, <<"a","v","e","n","u","e">>,
       <<"b","o","u","l","e","v","a","r","d">>, <<"p","l","a","c","e">>,
       <<"b","d">> >>

\* any(keyword in text.lower() for keyword in [...])
HasAddressKeyword(text) ==
    LET lowered == Lower(text)
    IN  \E n \in DOMAIN address_keywords : Contains(address_keywords[n], lowered)

\* the first run of digits, parentheses or not
RECURSIVE ReviewsSearchMutNoParens(_, _)
ReviewsSearchMutNoParens(s, k) ==
    IF k > Len(s) THEN None
    ELSE IF s[k] \in Digits THEN Some(SubSeq(s, k, RunEnd(s, k, Digits)))
         ELSE ReviewsSearchMutNoParens(s, k + 1)

\* re.search(r'\((\d+)\)', s): group 1 of the leftmost match, or None
RECURSIVE ReviewsSearch(_, _)
ReviewsSearch(s, k) ==
    IF k > Len(s) THEN None
    ELSE LET e == RunEnd(s, k + 1, Digits)
         IN  IF s[k] = "(" /\ e >= k + 1 /\ e + 1 <= Len(s) /\ s[e + 1] = ")"
             THEN Some(SubSeq(s, k + 1, e))
             ELSE ReviewsSearch(s, k + 1)

\* a rating text that does not parse stored as 0.0
RatingStepMutZeroOnError(business, container) ==
    IF container.rating = None THEN business
    ELSE LET rc == container.rating[1]
             v  == IF rc.value = None THEN None
                   ELSE ParseFloat(CommaToPoint(GetText(rc.value[1])))
             b1 == IF rc.value = None THEN business
                   ELSE Put(business, "note",
                            IF v = None
                            THEN Some([neg |-> FALSE, num |-> 0, scale |-> 0])
                            ELSE v)
             m  == IF rc.reviews = None THEN None
                   ELSE ReviewsSearch(GetText(rc.reviews[1]), 1)
         IN  IF m = None THEN b1
             ELSE Put(b1, "nombre_avis", IntOfDigits(m[1]))

\* lines 153-169: the rating container
RatingStep(business, container) ==
    IF container.rating = None THEN business
    ELSE LET rc == container.rating[1]
             b1 == IF rc.value = None THEN business
                   ELSE Put(business, "note",
                            ParseFloat(CommaToPoint(GetText(rc.value[1]))))
             m  == IF rc.reviews = None THEN None
                   ELSE ReviewsSearch(GetText(rc.reviews[1]), 1)
         IN  IF m = None THEN b1
             ELSE Put(b1, "nombre_avis", IntOfDigits(m[1]))

\* lines 182-189: the first middle-dot part that holds a keyword, or None
RECURSIVE FirstAddressPart(_)
FirstAddressPart(parts) ==
    IF parts = <<>> THEN None
    ELSE IF HasAddressKeyword(Strip(Head(parts)))
         THEN Some(Strip(Head(parts)))
         ELSE FirstAddressPart(Tail(parts))

\* the city inferred from the whole text of the div
InfoStepMutCityFromText(business, info) ==
    LET text == GetText(info)
        part == FirstAddressPart(Split(text, "MIDDOT"))
    IN  IF HasAddressKeyword(text) /\ Contains(<<"MIDDOT">>, text) /\ part # None
        THEN Put(Put(business, "adresse", part[1]),
                 "ville", _extract_city_from_address(text))
        ELSE business

\* lines 173-189, one W4Efsd div
InfoStep(business, info) ==
    LET text == GetText(info)
        part == FirstAddressPart(Split(text, "MIDDOT"))
    IN  IF HasAddressKeyword(text) /\ Contains(<<"MIDDOT">>, text) /\ part # None
        THEN Put(Put(business, "adresse", part[1]),
                 "ville", _extract_city_from_address(part[1]))
        ELSE business

RECURSIVE InfoLoop(_, _)
InfoLoop(business, infos) ==
    IF infos = <<>> THEN business
    ELSE InfoLoop(InfoStep(business, Head(infos)), Tail(infos))

\* the phone stored under another key
PhoneStepMutWrongKey(business, container) ==
    IF container.phone = None THEN business
    ELSE Put(business, "phone", GetText(container.phone[1]))

\* lines 192-194
PhoneStep(business, container) ==
    IF container.phone = None THEN business
    ELSE Put(business, "telephone", GetText(container.phone[1]))

\* the class tokens of the model that end in lcr4fd, and those that start
\* with S9kvJb
TokensEndingLcr4fd == {"lcr4fd", "xlcr4fd"}

TokensStartingS9kvJb == {"S9kvJb", "S9kvJbx"}

\* both markers somewhere among the tokens, in any order
WebsiteClassMatchesMutAnyOrder(cls) ==
    /\ \E k \in DOMAIN cls : cls[k] \in TokensEndingLcr4fd
    /\ \E k \in DOMAIN cls : cls[k] \in TokensStartingS9kvJb

\* class_=re.compile(r'lcr4fd\s+S9kvJb'): the pattern is searched in each
\* class token and then in the tokens joined by single spaces; no token
\* holds whitespace, so it is found only across two neighbouring tokens
WebsiteClassMatches(cls) ==
    \E k \in 1..(Len(cls) - 1) :
        cls[k] \in TokensEndingLcr4fd /\ cls[k + 1] \in TokensStartingS9kvJb

\* lines 197-199: find returns the first matching anchor
WebsiteStep(business, container) ==
    LET hits == { k \in DOMAIN container.links :
                    WebsiteClassMatches(container.links[k].cls) }
    IN  IF hits = {} THEN business
        ELSE LET link == container.links[CHOOSE k \in hits : \A m \in hits : k <= m]
             IN  IF Truthy(link.href)
                 THEN Put(business, "site_web", link.href[1])
                 ELSE business

\* the three colours of lines 208-212
status_colors == {"rgba(220,54,46", "rgba(25,134,57", "rgba(178,108,0"}

\* a status already found is kept
StatusStepMutKeepFirst(business, span) ==
    IF /\ span.color \in status_colors
       /\ GetText(span.text) # <<>>
       /\ "statut_ouverture" \notin DOMAIN business
    THEN Put(business, "statut_ouverture", GetText(span.text))
    ELSE business

\* lines 203-213, one styled span
StatusStep(business, span) ==
    IF span.color \in status_colors /\ GetText(span.text) # <<>>
    THEN Put(business, "statut_ouverture", GetText(span.text))
    ELSE business

RECURSIVE StatusLoop(_, _)
StatusLoop(business, spans) ==
    IF spans = <<>> THEN business
    ELSE StatusLoop(StatusStep(business, Head(spans)), Tail(spans))

\* line 223
TypeEntreprise(has_attrs, default_business_type) ==
    IF has_attrs /\ Truthy(default_business_type)
    THEN default_business_type[1]
    ELSE NonSpecifie

\* lines 219-228
DefaultsMutNoCity(business, has_attrs, default_business_type) ==
    LET b1 == SetDefault(business, "note", None)
        b2 == SetDefault(b1, "nombre_avis", 0)
        b3 == Put(b2, "type_entreprise", TypeEntreprise(has_attrs, default_business_type))
        b4 == SetDefault(b3, "adresse", NonSpecifiee)
        b6 == SetDefault(b4, "telephone", NonSpecifie)
        b7 == SetDefault(b6, "site_web", NonSpecifie)
    IN  SetDefault(b7, "statut_ouverture", NonSpecifie)

Defaults(business, has_attrs, default_business_type) ==
    LET b1 == SetDefault(business, "note", None)
        b2 == SetDefault(b1, "nombre_avis", 0)
        b3 == Put(b2, "type_entreprise", TypeEntreprise(has_attrs, default_business_type))
        b4 == SetDefault(b3, "adresse", NonSpecifiee)
        b5 == SetDefault(b4, "ville", NonSpecifiee)
        b6 == SetDefault(b5, "telephone", NonSpecifie)
        b7 == SetDefault(b6, "site_web", NonSpecifie)
    IN  SetDefault(b7, "statut_ouverture", NonSpecifie)

\* line 216: if not business.get('nom')
NameInvalid(business) == business.nom = <<>>

\* _extract_single_business: Some(record) or None
_extract_single_business(container, has_attrs, default_business_type) ==
    IF container.fault = "inner" THEN None
    ELSE IF container.name = None THEN None
    ELSE LET b0 == [nom |-> GetText(container.name[1])]
             b1 == RatingStep(b0, container)
             b2 == InfoLoop(b1, container.infos)
             b3 == PhoneStep(b2, container)
             b4 == WebsiteStep(b3, container)
             b5 == StatusLoop(b4, container.spans)
         IN  IF NameInvalid(b5) THEN None
             ELSE Some(Defaults(b5, has_attrs, default_business_type))

(***************************************************************************)
(* Delivery: the values send_to_notion builds for one record.              *)
(***************************************************************************)
\* str.upper(), character by character
UpperOf == [c \in { LowerLetters[k] : k \in DOMAIN LowerLetters } |->
               UpperLetters[CHOOSE k \in DOMAIN LowerLetters : LowerLetters[k] = c]]

UpperChar(c) == IF c \in DOMAIN UpperOf THEN UpperOf[c] ELSE c

Letters == Range(UpperLetters) \cup Range(LowerLetters)

\* str.title(): a letter that follows a letter is lowered, any other letter
\* is raised
RECURSIVE TitleFrom(_, _)
TitleFrom(s, after_letter) ==
    IF s = <<>> THEN <<>>
    ELSE <<IF after_letter THEN LowerChar(Head(s)) ELSE UpperChar(Head(s))>>
         \o TitleFrom(Tail(s), Head(s) \in Letters)

Title(s) == TitleFrom(s, FALSE)

\* str.isdigit()
IsDigit(s) == s # <<>> /\ \A k \in DOMAIN s : s[k] \in Digits

\* str.split(): the runs of non-whitespace characters
RECURSIVE SplitWords(_, _)
SplitWords(s, cur) ==
    IF s = <<>> THEN (IF cur = <<>> THEN <<>> ELSE <<cur>>)
    ELSE IF Head(s) \in Whitespace
         THEN (IF cur = <<>> THEN <<>> ELSE <<cur>>) \o SplitWords(Tail(s), <<>>)
         ELSE SplitWords(Tail(s), Append(cur, Head(s)))

\* " ".join(words)
RECURSIVE JoinWords(_)
JoinWords(words) ==
    IF words = <<>> THEN <<>>
    ELSE IF Len(words) = 1 THEN words[1]
    ELSE words[1] \o <<" ">> \o JoinWords(Tail(words))

\* lines 255-269: the city of the record itself
VilleOfRecord(ville) ==
    IF ville = <<>> \/ Strip(ville) = <<>> \/ ville = NonSpecifiee
    THEN NonSpecifiee
    ELSE LET ville_clean == Strip(ville)
             parts == SplitWords(ville_clean, <<>>)
         IN  IF IsDigit(ville_clean) THEN NonSpecifiee
             ELSE IF Len(parts) > 1 /\ IsDigit(parts[1])
                  THEN Title(JoinWords(Tail(parts)))
                  ELSE Title(ville_clean)

VilleOptionMutIgnoreDefault(ville, has_attrs, default_city) == VilleOfRecord(ville)

\* the default city returned as it was given
VilleOptionMutNoStrip(ville, has_attrs, default_city) ==
    IF has_attrs /\ Truthy(default_city)
    THEN default_city[1]
    ELSE VilleOfRecord(ville)

\* _get_or_create_ville_option
_get_or_create_ville_option(ville, has_attrs, default_city) ==
    IF has_attrs /\ Truthy(default_city)
    THEN Strip(default_city[1])
    ELSE VilleOfRecord(ville)

\* _get_or_create_business_type_option: the name of the select
_get_or_create_business_type_option(business_type, has_attrs, default_business_type) ==
    IF has_attrs /\ Truthy(default_business_type)
    THEN Strip(default_business_type[1])
    ELSE IF business_type # <<>> /\ Strip(business_type) # <<>>
         THEN Strip(business_type)
         ELSE NonSpecifie

\* lines 351-374: the properties of the page send_to_notion posts
NotionProperties(business, has_attrs, default_city, default_business_type) ==
    [Nom       |-> business.nom,
     Telephone |-> IF business.telephone # NonSpecifie
                   THEN Some(business.telephone) ELSE None,
     SiteWeb   |-> IF business.site_web # NonSpecifie
                   THEN Some(business.site_web) ELSE None,
     Ville     |-> _get_or_create_ville_option(business.ville, has_attrs, default_city),
     Type      |-> _get_or_create_business_type_option(
                       business.type_entreprise, has_attrs, default_business_type)]

(***************************************************************************)
(* The documents of the model.                                             *)
(***************************************************************************)
\* the longest document, in elements
MaxElements == 2

\* the number of calls made on one extractor
MaxCalls == 2

EmptyFragment ==
    [name |-> None, rating |-> None, infos |-> <<>>, phone |-> None,
     links |-> <<>>, spans |-> <<>>, fault |-> "none"]

\* every optional marker present; the address names a postal code and a city
FullFragment ==
    [name   |-> Some(<<"B","a","r">>),
     rating |-> Some([value   |-> Some(<<"4",",","5">>),
                      reviews |-> Some(<<"(","1","2","8",")">>)]),
     infos  |-> << <<"C","a","f","e"," ","MIDDOT"," ","1"," ","r","u","e"," ","A",",",
                     " ","7","5","0","0","2"," ","P","a","r","i","s">> >>,
     phone  |-> Some(<<"0","1"," ","0","2">>),
     links  |-> << [cls |-> <<"lcr4fd", "S9kvJb">>,
                    href |-> Some(<<"h","t","t","p",":","/","/","b">>)] >>,
     spans  |-> << [color |-> "rgba(25,134,57", text |-> <<"O","u","v","e","r","t">>] >>,
     fault  |-> "none"]

\* the name marker alone
NameOnlyFragment == [EmptyFragment EXCEPT !.name = Some(<<"Z","i","n","c">>)]

\* no name marker, other markers present
NoNameFragment ==
    [EmptyFragment EXCEPT !.phone = Some(<<"0","1"," ","0","2">>),
                          !.infos = << <<"B","a","r"," ","MIDDOT"," ","r","u","e"," ",
                                         "B"," ","L","y","o","n">> >>]

\* a name marker whose text is blank
BlankNameFragment == [EmptyFragment EXCEPT !.name = Some(<<" ">>)]

\* a named fragment on which a call inside the try block raises
InnerFaultFragment ==
    [EmptyFragment EXCEPT !.name = Some(<<"P","u","b">>), !.fault = "inner"]

\* a named fragment on which an exception leaves _extract_single_business
EscapeFaultFragment ==
    [EmptyFragment EXCEPT !.name = Some(<<"I","n","n">>), !.fault = "escape"]

\* the divs of a document: the listing containers and the results area
Elements ==
    { [cls |-> <<"Nv2PK", "THOPZb">>, frag |-> f] :
        f \in {FullFragment, NameOnlyFragment, NoNameFragment, BlankNameFragment,
               InnerFaultFragment, EscapeFaultFragment} }
    \cup { [cls |-> <<"m6QErb">>, frag |-> EmptyFragment] }

SeqsUpTo(S, n) == UNION { [1..m -> S] : m \in 0..n }

\* ok = FALSE: content the parser rejects
Documents ==
    { [ok |-> TRUE, elements |-> e] : e \in SeqsUpTo(Elements, MaxElements) }
    \cup { [ok |-> FALSE, elements |-> <<>>] }

\* the values a caller passes for default_city and default_business_type
CityArgs == { None, Some(<<" ","N","a","n","t","e","s">>) }

TypeArgs == { None, Some(<<"R","e","s","t","o">>) }

NoPolicy == [city |-> None, type |-> None]

\* soup.find_all('div', class_=re.compile(r'Nv2PK'))
IsListing(element) == \E k \in DOMAIN element.cls : element.cls[k] = "Nv2PK"

RECURSIVE FindContainers(_)
FindContainers(elements) ==
    IF elements = <<>> THEN <<>>
    ELSE IF IsListing(Head(elements))
         THEN <<Head(elements).frag>> \o FindContainers(Tail(elements))
         ELSE FindContainers(Tail(elements))

(***************************************************************************)
(* State.                                                                  *)
(***************************************************************************)
VARIABLES
    html,                    \* the document handed to every call
    has_attrs,               \* hasattr(self, 'default_city')
    default_city,            \* self.default_city
    default_business_type,   \* self.default_business_type
    pc,                      \* "idle", "parse", "loop", "returned", "deliver", "done"
    kind,                    \* the call under way: "process", "direct" or "none"
    policy,                  \* the overrides the call under way was given
    calls,                   \* calls started so far
    containers,              \* business_containers
    idx,                     \* the position of the for loop, from 1
    businesses,
    successful_extractions,
    failed_extractions,
    extraction_errors,
    report,                  \* None, or what extract_businesses_from_html ended with
    raised,                  \* an exception reached the caller
    pos,                     \* the position of the delivery loop, from 1
    success_count,
    error_count,
    duplicate_count,
    checked,                 \* the names check_if_company_exists was asked for
    sent,                    \* the pages send_to_notion built
    stats,                   \* None, or what process_html_file returned
    previous,                \* None, or the policy and report of the call before
    address,                 \* the argument of a lone city inference
    city,                    \* None, or its result
    fragment,                \* the container of a lone record extraction
    extracted,               \* None, or Some of what the extraction returned
    page                     \* None, or the properties of a lone send_to_notion

batch_vars ==
    <<html, has_attrs, default_city, default_business_type, pc, kind, policy, calls,
      containers, idx, businesses, successful_extractions, failed_extractions,
      extraction_errors, report, raised, pos, success_count, error_count,
      duplicate_count, checked, sent, stats, previous>>

city_vars == <<address, city>>

fragment_vars == <<fragment, extracted>>

\* what the calls on a document leave alone
send_vars == <<page>>

lone_vars == <<city_vars, fragment_vars, send_vars>>

vars == <<batch_vars, lone_vars>>

Incomplete == "Donnees d'entreprise incompletes"

EscapedError == "exception"

\* __init__ sets neither default_city nor default_business_type
InitExtractor ==
    /\ has_attrs = FALSE
    /\ default_city = None
    /\ default_business_type = None

\* no call made yet
InitCalls ==
    /\ pc = "idle"
    /\ kind = "none"
    /\ policy = NoPolicy
    /\ calls = 0
    /\ containers = <<>>
    /\ idx = 1
    /\ businesses = <<>>
    /\ successful_extractions = 0
    /\ failed_extractions = 0
    /\ extraction_errors = <<>>
    /\ report = None
    /\ raised = FALSE
    /\ pos = 1
    /\ success_count = 0
    /\ error_count = 0
    /\ duplicate_count = 0
    /\ checked = <<>>
    /\ sent = <<>>
    /\ stats = None
    /\ previous = None

InitBatch == InitExtractor /\ InitCalls

Init ==
    /\ html \in Documents
    /\ InitBatch
    /\ address = <<>>
    /\ city = None
    /\ fragment = EmptyFragment
    /\ extracted = None
    /\ page = None

(***************************************************************************)
(* extract_businesses_from_html                                            *)
(***************************************************************************)
\* the locals of the call, as a record
Locals ==
    [businesses             |-> businesses,
     successful_extractions |-> successful_extractions,
     failed_extractions     |-> failed_extractions,
     extraction_errors      |-> extraction_errors]

FreshLocalsMutKept == Locals

\* lines 67-70
FreshLocals ==
    [businesses             |-> <<>>,
     successful_extractions |-> 0,
     failed_extractions     |-> 0,
     extraction_errors      |-> <<>>]

DocumentErrorMutRaise(locals) == [raised |-> TRUE, records |-> <<>>]

\* lines 127-129: except Exception: return []
DocumentError(locals) == [raised |-> FALSE, records |-> <<>>]

OnRecordMutNoCount(locals, business_data) ==
    [locals EXCEPT !.businesses = Append(@, business_data)]

\* lines 100-103
OnRecord(locals, business_data) ==
    [locals EXCEPT !.businesses = Append(@, business_data),
                   !.successful_extractions = @ + 1]

OnNoneMutNoCount(locals) ==
    [locals EXCEPT !.extraction_errors = Append(@, Incomplete)]

\* lines 104-106
OnNone(locals) ==
    [locals EXCEPT !.failed_extractions = @ + 1,
                   !.extraction_errors = Append(@, Incomplete)]

OnExceptionMutDrop(locals, error_msg) ==
    [locals EXCEPT !.businesses = <<>>,
                   !.failed_extractions = @ + 1,
                   !.extraction_errors = Append(@, error_msg)]

\* lines 108-113
OnException(locals, error_msg) ==
    [locals EXCEPT !.failed_extractions = @ + 1,
                   !.extraction_errors = Append(@, error_msg)]

\* lines 98-113: the body of the for loop on one container
LoopBody(locals, container, attrs, business_type) ==
    IF container.fault = "escape"
    THEN OnException(locals, EscapedError)
    ELSE LET business_data == _extract_single_business(container, attrs, business_type)
         IN  IF business_data # None
             THEN OnRecord(locals, business_data[1])
             ELSE OnNone(locals)

ReportOf(locals, records) ==
    [records   |-> records,
     succeeded |-> locals.successful_extractions,
     failed    |-> locals.failed_extractions,
     reasons   |-> locals.extraction_errors]

\* what a call that starts leaves of the call before
StartCall ==
    /\ pc \in {"idle", "done"}
    /\ calls < MaxCalls
    /\ calls' = calls + 1
    /\ previous' = IF report = None THEN None
                   ELSE Some([kind |-> kind, policy |-> policy, report |-> report[1]])
    /\ report' = None
    /\ raised' = FALSE
    /\ containers' = <<>>
    /\ idx' = 1
    /\ pos' = 1
    /\ success_count' = 0
    /\ error_count' = 0
    /\ duplicate_count' = 0
    /\ checked' = <<>>
    /\ sent' = <<>>
    /\ UNCHANGED <<html, businesses, successful_extractions, failed_extractions,
                   extraction_errors, lone_vars>>

\* lines 481-483
ReadErrorStats == [total |-> 0, success |-> 0, errors |-> 1]

\* line 439
EmptyStats == [total |-> 0, success |-> 0, errors |-> 0]

\* process_html_file, lines 418-435: the overrides are stored on the
\* extractor, the file is read and the extraction is called; a file that
\* cannot be read ends the call in the handler of lines 481-483
ProcessHtmlFile(city_arg, type_arg, readable) ==
    /\ StartCall
    /\ kind' = "process"
    /\ policy' = [city |-> city_arg, type |-> type_arg]
    /\ has_attrs' = TRUE
    /\ default_city' = city_arg
    /\ default_business_type' = type_arg
    /\ IF readable
       THEN pc' = "parse" /\ stats' = None
       ELSE pc' = "done" /\ stats' = Some(ReadErrorStats)

\* a caller calls extract_businesses_from_html itself
ExtractDirect ==
    /\ StartCall
    /\ kind' = "direct"
    /\ policy' = NoPolicy
    /\ pc' = "parse"
    /\ stats' = None
    /\ UNCHANGED <<has_attrs, default_city, default_business_type>>

\* lines 67-79 and 127-129
ParseAndScan ==
    /\ pc = "parse"
    /\ businesses' = FreshLocals.businesses
    /\ successful_extractions' = FreshLocals.successful_extractions
    /\ failed_extractions' = FreshLocals.failed_extractions
    /\ extraction_errors' = FreshLocals.extraction_errors
    /\ IF html.ok
       THEN /\ containers' = FindContainers(html.elements)
            /\ pc' = "loop"
            /\ UNCHANGED <<report, raised>>
       ELSE /\ containers' = <<>>
            /\ pc' = "returned"
            /\ raised' = DocumentError(FreshLocals).raised
            /\ report' = Some(ReportOf(FreshLocals, DocumentError(FreshLocals).records))
    /\ idx' = 1
    /\ UNCHANGED <<html, has_attrs, default_city, default_business_type, kind, policy,
                   calls, pos, success_count, error_count, duplicate_count, checked,
                   sent, stats, previous, lone_vars>>

\* lines 97-113, one container
ExtractOne ==
    /\ pc = "loop"
    /\ idx <= Len(containers)
    /\ LET after == LoopBody(Locals, containers[idx], has_attrs, default_business_type)
       IN  /\ businesses' = after.businesses
           /\ successful_extractions' = after.successful_extractions
           /\ failed_extractions' = after.failed_extractions
           /\ extraction_errors' = after.extraction_errors
    /\ idx' = idx + 1
    /\ UNCHANGED <<html, has_attrs, default_city, default_business_type, pc, kind, policy,
                   calls, containers, report, raised, pos, success_count, error_count,
                   duplicate_count, checked, sent, stats, previous, lone_vars>>

\* lines 115-125
ReturnBusinesses ==
    /\ pc = "loop"
    /\ idx > Len(containers)
    /\ report' = Some(ReportOf(Locals, businesses))
    /\ pc' = "returned"
    /\ UNCHANGED <<html, has_attrs, default_city, default_business_type, kind, policy,
                   calls, containers, idx, businesses, successful_extractions,
                   failed_extractions, extraction_errors, raised, pos, success_count,
                   error_count, duplicate_count, checked, sent, stats, previous,
                   lone_vars>>

\* the direct caller has its list
DirectReturns ==
    /\ pc = "returned"
    /\ kind = "direct"
    /\ pc' = "done"
    /\ UNCHANGED <<html, has_attrs, default_city, default_business_type, kind, policy,
                   calls, containers, idx, businesses, successful_extractions,
                   failed_extractions, extraction_errors, report, raised, pos,
                   success_count, error_count, duplicate_count, checked, sent, stats,
                   previous, lone_vars>>

(***************************************************************************)
(* process_html_file after the extraction                                  *)
(***************************************************************************)
\* lines 437-439, and the handler of lines 481-483 for an exception that
\* came out of the extraction
NothingFound ==
    /\ pc = "returned"
    /\ kind = "process"
    /\ raised \/ report[1].records = <<>>
    /\ stats' = Some(IF raised THEN ReadErrorStats ELSE EmptyStats)
    /\ raised' = FALSE
    /\ pc' = "done"
    /\ UNCHANGED <<html, has_attrs, default_city, default_business_type, kind, policy,
                   calls, containers, idx, businesses, successful_extractions,
                   failed_extractions, extraction_errors, report, pos, success_count,
                   error_count, duplicate_count, checked, sent, previous, lone_vars>>

\* lines 441-444
StartDelivery ==
    /\ pc = "returned"
    /\ kind = "process"
    /\ ~raised
    /\ report[1].records # <<>>
    /\ pc' = "deliver"
    /\ pos' = 1
    /\ success_count' = 0
    /\ error_count' = 0
    /\ duplicate_count' = 0
    /\ UNCHANGED <<html, has_attrs, default_city, default_business_type, kind, policy,
                   calls, containers, idx, businesses, successful_extractions,
                   failed_extractions, extraction_errors, report, raised, checked, sent,
                   stats, previous, lone_vars>>

\* a record whose name exists is counted as a duplicate and sent all the same
DeliverOneMutSendsDuplicate(exists, accepted) ==
    /\ pc = "deliver"
    /\ pos <= Len(report[1].records)
    /\ LET business == report[1].records[pos]
       IN  /\ checked' = Append(checked, business.nom)
           /\ sent' = Append(sent, NotionProperties(business, has_attrs,
                                       default_city, default_business_type))
           /\ IF exists
              THEN /\ duplicate_count' = duplicate_count + 1
                   /\ UNCHANGED <<success_count, error_count>>
              ELSE /\ success_count' = success_count + (IF accepted THEN 1 ELSE 0)
                   /\ error_count' = error_count + (IF accepted THEN 0 ELSE 1)
                   /\ UNCHANGED duplicate_count
    /\ pos' = pos + 1
    /\ UNCHANGED <<html, has_attrs, default_city, default_business_type, pc, kind, policy,
                   calls, containers, idx, businesses, successful_extractions,
                   failed_extractions, extraction_errors, report, raised, stats,
                   previous, lone_vars>>

\* lines 446-458, one record.  exists is the answer of
\* check_if_company_exists, accepted the answer of the service to the post.
DeliverOne(exists, accepted) ==
    /\ pc = "deliver"
    /\ pos <= Len(report[1].records)
    /\ LET business == report[1].records[pos]
       IN  /\ checked' = Append(checked, business.nom)
           /\ IF exists
              THEN /\ duplicate_count' = duplicate_count + 1
                   /\ UNCHANGED <<sent, success_count, error_count>>
              ELSE /\ sent' = Append(sent, NotionProperties(business, has_attrs,
                                               default_city, default_business_type))
                   /\ success_count' = success_count + (IF accepted THEN 1 ELSE 0)
                   /\ error_count' = error_count + (IF accepted THEN 0 ELSE 1)
                   /\ UNCHANGED duplicate_count
    /\ pos' = pos + 1
    /\ UNCHANGED <<html, has_attrs, default_city, default_business_type, pc, kind, policy,
                   calls, containers, idx, businesses, successful_extractions,
                   failed_extractions, extraction_errors, report, raised, stats,
                   previous, lone_vars>>

\* lines 460-479
ReturnStats ==
    /\ pc = "deliver"
    /\ pos > Len(report[1].records)
    /\ stats' = Some([total         |-> Len(report[1].records),
                      success       |-> success_count,
                      errors        |-> error_count,
                      duplicates    |-> duplicate_count,
                      error_details |-> <<>>])
    /\ pc' = "done"
    /\ UNCHANGED <<html, has_attrs, default_city, default_business_type, kind, policy,
                   calls, containers, idx, businesses, successful_extractions,
                   failed_extractions, extraction_errors, report, raised, pos,
                   success_count, error_count, duplicate_count, checked, sent, previous,
                   lone_vars>>

Next ==
    \/ \E c \in CityArgs, t \in TypeArgs, readable \in BOOLEAN :
           ProcessHtmlFile(c, t, readable)
    \/ ExtractDirect
    \/ ParseAndScan
    \/ ExtractOne
    \/ ReturnBusinesses
    \/ DirectReturns
    \/ NothingFound
    \/ StartDelivery
    \/ \E exists \in BOOLEAN, accepted \in BOOLEAN : DeliverOne(exists, accepted)
    \/ ReturnStats

Spec == Init /\ [][Next]_vars

(***************************************************************************)
(* City inference on its own: one call of _extract_city_from_address on    *)
(* an address put together from a prefix, a postal code, a gap, a word     *)
(* and a suffix.                                                           *)
(***************************************************************************)
AddressPrefixes ==
    { <<>>, <<"L","y","o","n",","," ">>, <<"1"," ","r","u","e"," ","X",","," ">>, <<"a">> }

AddressCodes == { <<"7","5","0","0","2">>, <<"7","5","0","0">>, <<>> }

AddressGaps == { <<>>, <<" ">>, <<" "," ">> }

AddressWords ==
    { <<"P","a","r","i","s">>, <<"P">>, <<"p","a","r","i","s">>,
      <<"S","t","-","L","o">>, <<"A","b",".">>, <<"b","i","s">>, <<>> }

AddressSuffixes == { <<>>, <<",", " ", "N","i","c","e">>, <<" ","2">>, <<".">> }

Addresses ==
    { p \o c \o g \o w \o x :
        p \in AddressPrefixes, c \in AddressCodes, g \in AddressGaps,
        w \in AddressWords, x \in AddressSuffixes }

InitCity ==
    /\ html = [ok |-> TRUE, elements |-> <<>>]
    /\ InitBatch
    /\ address \in Addresses
    /\ city = None
    /\ fragment = EmptyFragment
    /\ extracted = None
    /\ page = None

InferCity ==
    /\ city = None
    /\ city' = Some(_extract_city_from_address(address))
    /\ UNCHANGED <<address, batch_vars, fragment_vars, send_vars>>

NextCity == InferCity

SpecCity == InitCity /\ [][NextCity]_vars

(***************************************************************************)
(* Record extraction on its own: one call of _extract_single_business on   *)
(* a container put together from a choice for each marker, by an           *)
(* extractor in one of the states process_html_file can leave it in.       *)
(***************************************************************************)
RatingTexts ==
    { None, Some(<<"4",",","5">>), Some(<<"g","a","r","b","a","g","e">>),
      Some(<<"9",",","7">>) }

ReviewTexts ==
    { None, Some(<<"(","1","2","8",")">>), Some(<<"1","2"," ","a","v","i","s">>) }

FragmentRatings ==
    { None } \cup { Some([value |-> v, reviews |-> r]) : v \in RatingTexts, r \in ReviewTexts }

\* a category, a middle dot and an address with a postal code and a city
InfoFull ==
    <<"C","a","f","e"," ","MIDDOT"," ","1"," ","r","u","e"," ","A",",",
      " ","7","5","0","0","2"," ","P","a","r","i","s">>

\* an address and no middle dot
InfoNoDot ==
    <<"1"," ","r","u","e"," ","A",","," ","7","5","0","0","2"," ","P","a","r","i","s">>

\* a middle dot and no address keyword
InfoNoKeyword == <<"C","a","f","e"," ","MIDDOT"," ","O","u","v","e","r","t">>

\* a known city before the middle dot, another in the address
InfoTwoCities ==
    <<"L","y","o","n"," ","B","a","r"," ","MIDDOT"," ","2"," ","P","l","a","c","e",
      " ","B",","," ","N","i","c","e">>

\* an address that names no city
InfoNoCity == <<"B","a","r"," ","MIDDOT"," ","3"," ","b","d"," ","C">>

FragmentInfos ==
    { <<>>, <<InfoFull>>, <<InfoNoDot>>, <<InfoNoKeyword>>, <<InfoTwoCities>>,
      <<InfoNoCity>>, <<InfoFull, InfoTwoCities>> }

FragmentPhones == { None, Some(<<"0","1"," ","0","2">>) }

AnchorPlain ==
    [cls |-> <<"lcr4fd", "S9kvJb">>, href |-> Some(<<"h","t","t","p",":","/","/","b">>)]

AnchorReversed ==
    [cls |-> <<"S9kvJb", "lcr4fd">>, href |-> Some(<<"h","t","t","p",":","/","/","r">>)]

AnchorApart ==
    [cls |-> <<"lcr4fd", "x", "S9kvJb">>, href |-> Some(<<"h","t","t","p",":","/","/","m">>)]

AnchorNoHref == [cls |-> <<"lcr4fd", "S9kvJb">>, href |-> None]

AnchorOther ==
    [cls |-> <<"x">>, href |-> Some(<<"h","t","t","p",":","/","/","o">>)]

AnchorLonger ==
    [cls |-> <<"xlcr4fd", "S9kvJbx">>, href |-> Some(<<"h","t","t","p",":","/","/","w">>)]

FragmentLinks ==
    { <<>>, <<AnchorPlain>>, <<AnchorReversed>>, <<AnchorApart>>,
      <<AnchorNoHref, AnchorPlain>>, <<AnchorOther, AnchorPlain>>,
      <<AnchorLonger, AnchorPlain>> }

SpanOpen == [color |-> "rgba(25,134,57", text |-> <<"O","u","v","e","r","t">>]

SpanClosed == [color |-> "rgba(220,54,46", text |-> <<"F","e","r","m","e">>]

SpanBlank == [color |-> "rgba(220,54,46", text |-> <<" ">>]

SpanOther == [color |-> "rgba(0,0,0", text |-> <<"P","r","o","m","o">>]

FragmentSpans ==
    { <<>>, <<SpanOpen>>, <<SpanOpen, SpanClosed>>, <<SpanOpen, SpanBlank>>,
      <<SpanClosed, SpanOther>>, <<SpanBlank>> }

\* a name and a phone element that holds no text
BlankPhoneFragment ==
    [EmptyFragment EXCEPT !.name = Some(<<"B","a","r">>), !.phone = Some(<<" ">>)]

\* the containers that carry a name, two that carry none, and one with an
\* empty phone element
Fragments ==
    { [name |-> Some(<<"B","a","r">>), rating |-> r, infos |-> i, phone |-> p,
       links |-> l, spans |-> s, fault |-> "none"] :
        r \in FragmentRatings, i \in FragmentInfos,
        p \in FragmentPhones, l \in FragmentLinks, s \in FragmentSpans }
    \cup { NoNameFragment, [FullFragment EXCEPT !.name = None], BlankPhoneFragment }

\* a new extractor, and an extractor after process_html_file (lines 420-421)
ExtractorStates ==
    { [has_attrs |-> FALSE, default_city |-> None, default_business_type |-> None] }
    \cup { [has_attrs |-> TRUE, default_city |-> None, default_business_type |-> t] :
              t \in TypeArgs }

InitFragment ==
    /\ html = [ok |-> TRUE, elements |-> <<>>]
    /\ \E e \in ExtractorStates :
          /\ has_attrs = e.has_attrs
          /\ default_city = e.default_city
          /\ default_business_type = e.default_business_type
    /\ InitCalls
    /\ address = <<>>
    /\ city = None
    /\ fragment \in Fragments
    /\ extracted = None
    /\ page = None

ExtractFragment ==
    /\ extracted = None
    /\ extracted' = Some(_extract_single_business(fragment, has_attrs,
                                                  default_business_type))
    /\ UNCHANGED <<fragment, batch_vars, city_vars, send_vars>>

NextFragment == ExtractFragment

SpecFragment == InitFragment /\ [][NextFragment]_vars

(***************************************************************************)
(* Delivery on its own: a record is extracted from a container and handed  *)
(* to send_to_notion by an extractor in one of the states                  *)
(* process_html_file can leave it in.                                      *)
(***************************************************************************)
\* the texts of the W4Efsd div: addresses whose last part is a number, a
\* number and two words, a word in small letters, a hyphenated name
SendInfos ==
    { <<>>, <<InfoFull>>, <<InfoNoCity>>,
      << <<"C","a","f","e"," ","MIDDOT"," ","1"," ","r","u","e"," ","A",","," ",
           "7","5","0","0">> >>,
      << <<"C","a","f","e"," ","MIDDOT"," ","1"," ","r","u","e"," ","A",","," ",
           "1","2"," ","f","o","o"," ","b","a","r">> >>,
      << <<"C","a","f","e"," ","MIDDOT"," ","1"," ","r","u","e"," ","A",","," ",
           "b","i","s">> >>,
      << <<"C","a","f","e"," ","MIDDOT"," ","1"," ","r","u","e"," ","A",","," ",
           "7","5","0","0","2"," ","S","t","-","L","o">> >>,
      << <<"C","a","f","e"," ","MIDDOT"," ","1"," ","r","u","e"," ","A",","," ",
           "s","a","i","n","t","-","l","o">> >> }

SendFragments ==
    { [NameOnlyFragment EXCEPT !.infos = i, !.phone = p] :
        i \in SendInfos, p \in FragmentPhones }

\* a new extractor, and an extractor after lines 420-421
SendExtractorStates ==
    { [has_attrs |-> FALSE, default_city |-> None, default_business_type |-> None] }
    \cup { [has_attrs |-> TRUE, default_city |-> c, default_business_type |-> t] :
              c \in CityArgs, t \in TypeArgs }

InitSend ==
    /\ html = [ok |-> TRUE, elements |-> <<>>]
    /\ \E e \in SendExtractorStates :
          /\ has_attrs = e.has_attrs
          /\ default_city = e.default_city
          /\ default_business_type = e.default_business_type
    /\ InitCalls
    /\ address = <<>>
    /\ city = None
    /\ fragment \in SendFragments
    /\ extracted = None
    /\ page = None

\* send_to_notion, lines 351-374, on the record extracted
SendExtracted ==
    /\ extracted # None
    /\ extracted[1] # None
    /\ page = None
    /\ page' = Some(NotionProperties(extracted[1][1], has_attrs, default_city,
                                     default_business_type))
    /\ UNCHANGED <<batch_vars, city_vars, fragment_vars>>

NextSend == ExtractFragment \/ SendExtracted

SpecSend == InitSend /\ [][NextSend]_vars

(***************************************************************************)
(* Properties.                                                             *)
(***************************************************************************)
NineFields ==
    {"nom", "note", "nombre_avis", "type_entreprise", "adresse", "ville",
     "telephone", "site_web", "statut_ouverture"}

\* the records the call under way has collected or returned
RecordsSoFar ==
    IF pc = "loop" THEN businesses
    ELSE IF report # None THEN report[1].records ELSE <<>>

\* the extraction of the call under way has started
Extracting == pc = "loop" \/ report # None

\* the fragment carries a name marker with a name in it
Named(container) == container.name # None /\ Strip(container.name[1]) # <<>>

\* the fragment ends as a failure
Fails(container) == container.fault # "none" \/ ~Named(container)

\* the reasons of the failed fragments, in the order of the fragments
RECURSIVE ExpectedReasons(_)
ExpectedReasons(cs) ==
    IF cs = <<>> THEN <<>>
    ELSE (IF Head(cs).fault = "escape" THEN <<EscapedError>>
          ELSE IF Fails(Head(cs)) THEN <<Incomplete>>
          ELSE <<>>) \o ExpectedReasons(Tail(cs))

\* the records of the fragments that do not fail, in the order of the
\* fragments, for an extractor in the given state
RECURSIVE ExpectedRecords(_, _, _)
ExpectedRecords(cs, attrs, business_type) ==
    IF cs = <<>> THEN <<>>
    ELSE (IF Fails(Head(cs)) THEN <<>>
          ELSE <<_extract_single_business(Head(cs), attrs, business_type)[1]>>)
         \o ExpectedRecords(Tail(cs), attrs, business_type)

\* C1: every record collected or returned by extract_businesses_from_html
\* has exactly the nine fields and a non-empty name, and there are never
\* more records than fragments processed that carry a non-empty name.
C1_RecordsComplete ==
    /\ \A n \in DOMAIN RecordsSoFar :
          /\ DOMAIN RecordsSoFar[n] = NineFields
          /\ RecordsSoFar[n].nom # <<>>
    /\ Extracting =>
          Len(RecordsSoFar) <= Cardinality({ k \in 1..(idx - 1) : Named(containers[k]) })

\* a record was returned from a document that also holds a blank name and
\* a fragment with no optional marker
C1_Witness ==
    /\ report # None
    /\ Len(report[1].records) = 1
    /\ \E k \in DOMAIN containers : containers[k] = BlankNameFragment
    /\ \E k \in DOMAIN containers : containers[k] = NameOnlyFragment

\* C2: the step on a fragment with no name marker adds no record, raises
\* the failure count by exactly one and moves on to the next fragment; the
\* loop ends only after the last fragment, with the records of all the
\* fragments that do not fail.
C2_MissingName ==
    [][ /\ (pc = "loop" /\ idx <= Len(containers) /\ containers[idx].name = None)
            => /\ businesses' = businesses
               /\ failed_extractions' = failed_extractions + 1
               /\ successful_extractions' = successful_extractions
               /\ idx' = idx + 1
               /\ pc' = "loop"
        /\ (pc = "loop" /\ pc' # "loop")
            => /\ idx > Len(containers)
               /\ report' # None
               /\ report'[1].records =
                     ExpectedRecords(containers, has_attrs, default_business_type)
      ]_vars

\* a fragment with no name marker came first and the fragment after it
\* gave its record
C2_Witness ==
    /\ report # None
    /\ Len(containers) = 2
    /\ containers[1].name = None
    /\ report[1].failed = 1
    /\ Len(report[1].records) = 1

\* C3: at the end of a batch over n fragments, succeeded + failed = n, the
\* records are as many as the successes, and the reasons are those of the
\* failed fragments, one each, in the order of the fragments.
C3_Counts ==
    report # None =>
        /\ report[1].succeeded + report[1].failed = Len(containers)
        /\ Len(report[1].records) = report[1].succeeded
        /\ Len(report[1].reasons) = report[1].failed
        /\ report[1].reasons = ExpectedReasons(containers)

\* one fragment succeeded and one failed
C3_Witness ==
    /\ report # None
    /\ report[1].succeeded = 1
    /\ report[1].failed = 1

\* the city inferred from the address of a record, or the placeholder
InferredCity(business) ==
    IF business.adresse = NonSpecifiee THEN NonSpecifiee
    ELSE _extract_city_from_address(business.adresse)

\* C4 as stated: with a fixed city, the city field of every record of the
\* run is the fixed city.
C4_RecordCityIsFixed ==
    (report # None /\ kind = "process" /\ Truthy(policy.city)) =>
        \A n \in DOMAIN report[1].records :
            report[1].records[n].ville \in {policy.city[1], Strip(policy.city[1])}

\* C4 as amended: with a fixed city, every page sent in the run carries the
\* fixed city, trimmed, while the city field of each record stays the city
\* inferred from its address or the placeholder.
C4_SentCityIsFixed ==
    (kind = "process" /\ Truthy(policy.city)) =>
        /\ \A n \in DOMAIN sent : sent[n].Ville = Strip(policy.city[1])
        /\ report # None =>
              \A n \in DOMAIN report[1].records :
                  report[1].records[n].ville = InferredCity(report[1].records[n])

\* a record whose address names Paris was sent in a run with a fixed city
C4_Witness ==
    /\ kind = "process"
    /\ Truthy(policy.city)
    /\ report # None
    /\ sent # <<>>
    /\ \E n \in DOMAIN report[1].records :
          /\ report[1].records[n].ville = <<"P","a","r","i","s">>
          /\ sent[Len(sent)].Nom = report[1].records[n].nom

\* C5: the category of every record is the fixed category when the call
\* was given one, and the placeholder otherwise.
C5_Category ==
    report # None =>
        \A n \in DOMAIN report[1].records :
            report[1].records[n].type_entreprise =
                IF Truthy(policy.type) THEN policy.type[1] ELSE NonSpecifie

\* C6: a call that is given no override returns the records and sends the
\* pages that an extractor on which no override was ever set would.
C6_OverridesScoped ==
    (report # None /\ policy = NoPolicy) =>
        /\ report[1].records = ExpectedRecords(containers, FALSE, None)
        /\ \A n \in DOMAIN sent :
              \E m \in DOMAIN report[1].records :
                  sent[n] = NotionProperties(report[1].records[m], FALSE, None, None)

\* C7: a call that repeats the call before it, on the same document with
\* the same overrides, ends with the same records, counts and reasons.
C7_SameTwice ==
    (report # None /\ previous # None
        /\ previous[1].kind = kind /\ previous[1].policy = policy)
    => report[1] = previous[1].report

\* process_html_file ran twice with the same fixed category and returned
\* records
C7_Witness ==
    /\ report # None
    /\ previous # None
    /\ kind = "process"
    /\ previous[1].kind = kind
    /\ previous[1].policy = policy
    /\ Truthy(policy.type)
    /\ report[1].records # <<>>
    /\ report[1].failed > 0

\* C8: the step on a fragment that raises counts exactly one failure with
\* one reason, keeps the records collected so far and moves on to the next
\* fragment; the loop never ends before the last fragment.
C8_FaultIsolated ==
    [][ /\ (pc = "loop" /\ idx <= Len(containers) /\ containers[idx].fault # "none")
            => /\ failed_extractions' = failed_extractions + 1
               /\ Len(extraction_errors') = Len(extraction_errors) + 1
               /\ businesses' = businesses
               /\ successful_extractions' = successful_extractions
               /\ idx' = idx + 1
               /\ pc' = "loop"
               /\ ~raised'
        /\ (pc = "loop" /\ pc' # "loop") => idx > Len(containers)
      ]_vars

\* a fragment raised after a record was collected, and the record was
\* returned
C8_Witness ==
    /\ report # None
    /\ Len(containers) = 2
    /\ containers[2].fault = "escape"
    /\ Len(report[1].records) = 1
    /\ report[1].failed = 1

\* C9: no exception reaches the caller, and a document the parser rejects
\* gives no record and zero counts, from extract_businesses_from_html and
\* from process_html_file.
C9_NeverRaises ==
    /\ ~raised
    /\ (report # None /\ ~html.ok) =>
          /\ report[1].records = <<>>
          /\ report[1].succeeded = 0
          /\ report[1].failed = 0
          /\ report[1].reasons = <<>>
    /\ (pc = "done" /\ kind = "process" /\ report # None /\ ~html.ok) =>
          stats = Some(EmptyStats)

\* process_html_file returned on a document the parser rejects
C9_Witness ==
    /\ pc = "done"
    /\ kind = "process"
    /\ ~html.ok
    /\ report # None
    /\ stats = Some(EmptyStats)

\* a match of the postal-code pattern in a: five digits from k after a word
\* boundary, whitespace up to g, a capital at g and the word run up to e
PostalMatch(a, k, g, e) ==
    /\ WordBoundary(a, k)
    /\ k + 4 <= Len(a)
    /\ \A n \in k..(k + 4) : a[n] \in Digits
    /\ g > k + 5
    /\ \A n \in (k + 5)..(g - 1) : a[n] \in Whitespace
    /\ g <= Len(a)
    /\ a[g] \in CityFirstClass
    /\ e > g
    /\ e <= Len(a)
    /\ \A n \in (g + 1)..e : a[n] \in CityRunClass
    /\ (e = Len(a) \/ a[e + 1] \notin CityRunClass)

\* C10: when the address holds a postal code followed by whitespace and a
\* capitalized word run, the city is the word run of the leftmost such
\* code, trimmed and without punctuation, whatever known city or
\* comma-separated tail the address also holds.
C10_PostalCodeFirst ==
    city # None =>
        \A k, g, e \in 1..Len(address) :
            (/\ PostalMatch(address, k, g, e)
             /\ \A j \in 1..(k - 1) : \A h, f \in 1..Len(address) :
                    ~PostalMatch(address, j, h, f))
            => city[1] = Strip(KeepOnly(Strip(SubSeq(address, g, e)), CityKeepClass))

\* the postal-code rule gave St-Lo for an address that also names a known
\* city and has a comma-separated tail
C10_Witness ==
    /\ city = Some(<<"S","t","-","L","o">>)
    /\ KnownCity(address) # <<>>
    /\ Len(Split(address, ",")) >= 2
    /\ \E k, g, e \in 1..Len(address) : PostalMatch(address, k, g, e)

\* no match of the postal-code pattern anywhere in a
NoPostalMatch(a) ==
    \A k \in 1..(Len(a) - 6) :
        (\A n \in k..(k + 4) : a[n] \in Digits)
        => \A g, e \in (k + 6)..Len(a) : ~PostalMatch(a, k, g, e)

\* the n-th known city stands in a from index k, letter case set aside
ListedAt(n, a, k) ==
    /\ k + Len(common_cities[n]) - 1 <= Len(a)
    /\ \A j \in 1..Len(common_cities[n]) :
          LowerChar(a[k + j - 1]) = LowerChar(common_cities[n][j])

Listed(n, a) == \E k \in 1..Len(a) : ListedAt(n, a, k)

\* C11: with no match of the postal-code pattern, the city is the first
\* name of the known-city list, in the order of the list, that occurs in the
\* address in any letter case; the last-segment fallback is not consulted.
C11_KnownCityInListOrder ==
    (city # None /\ NoPostalMatch(address)) =>
        \A n \in DOMAIN common_cities :
            (Listed(n, address) /\ \A m \in 1..(n - 1) : ~Listed(m, address))
            => city[1] = common_cities[n]

\* Paris was returned for an address that names Lyon before it, in small
\* letters and after a comma
C11_Witness ==
    /\ city = Some(common_cities[1])
    /\ NoPostalMatch(address)
    /\ \E k1, k2 \in 1..Len(address) :
          k1 < k2 /\ ListedAt(2, address, k1) /\ ListedAt(1, address, k2)
                  /\ address[k2] = "p"
    /\ \E k \in 1..Len(address) : address[k] = ","

\* the text of a after its last comma; None when a has no comma
LastSegment(a) ==
    LET commas == { k \in 1..Len(a) : a[k] = "," }
    IN  IF commas = {} THEN None
        ELSE Some(SubSeq(a, (CHOOSE k \in commas : \A j \in commas : j <= k) + 1, Len(a)))

\* C12: with no match of the postal-code pattern and no known city, the
\* city is the last comma-separated segment, its standalone 5-digit tokens
\* removed and trimmed, when the address has a comma and more than 2
\* characters remain; in every other case it is the placeholder.
C12_LastSegmentFallback ==
    (/\ city # None
     /\ NoPostalMatch(address)
     /\ \A n \in DOMAIN common_cities : ~Listed(n, address))
    => LET seg == LastSegment(address)
           rem == IF seg = None THEN <<>>
                  ELSE Strip(RemovePostalCodes(Strip(seg[1]), 1))
       IN  city[1] = IF Len(rem) > 2 THEN rem ELSE NonSpecifiee

\* the fallback returned "bis" from a last segment that began with a
\* postal code
C12_Witness ==
    /\ city = Some(<<"b","i","s">>)
    /\ LastSegment(address) # None
    /\ OccursAt(<<"7","5","0","0","2">>, Strip(LastSegment(address)[1]), 1)

\* the lone extraction returned a record
Produced == extracted # None /\ extracted[1] # None

\* the record it returned
Rec == extracted[1][1]

Placeholders == {NonSpecifie, NonSpecifiee}

\* the text holds one of the address keywords, letter case set aside
KeywordIn(text) ==
    \E n \in DOMAIN address_keywords : \E k \in 1..Len(text) :
        /\ k + Len(address_keywords[n]) - 1 <= Len(text)
        /\ \A j \in 1..Len(address_keywords[n]) :
              LowerChar(text[k + j - 1]) = address_keywords[n][j]

\* both marker tokens stand somewhere in the class of the anchor
BothTokens(a) ==
    /\ \E k \in DOMAIN a.cls : a.cls[k] \in TokensEndingLcr4fd
    /\ \E k \in DOMAIN a.cls : a.cls[k] \in TokensStartingS9kvJb

\* the class of the anchor reads lcr4fd, whitespace, S9kvJb
TokensInARow(a) ==
    \E k \in DOMAIN a.cls :
        /\ k + 1 \in DOMAIN a.cls
        /\ a.cls[k] \in TokensEndingLcr4fd
        /\ a.cls[k + 1] \in TokensStartingS9kvJb

\* every optional marker is in the fragment
AllMarkers(f) ==
    /\ f.rating # None
    /\ f.rating[1].value # None
    /\ f.rating[1].reviews # None
    /\ \E n \in DOMAIN f.infos : KeywordIn(f.infos[n])
    /\ f.phone # None
    /\ \E n \in DOMAIN f.links : BothTokens(f.links[n])
    /\ \E n \in DOMAIN f.spans : f.spans[n].color \in status_colors

\* C13 as stated: a fragment with every optional marker gives a record in
\* which no text field is a placeholder.
C13_NoPlaceholder ==
    (Produced /\ AllMarkers(fragment)) =>
        /\ Rec.type_entreprise \notin Placeholders
        /\ Rec.adresse \notin Placeholders
        /\ Rec.ville \notin Placeholders
        /\ Rec.telephone \notin Placeholders
        /\ Rec.site_web \notin Placeholders
        /\ Rec.statut_ouverture \notin Placeholders

\* every optional marker is in the fragment in the form the extractor
\* reads: a rating text that parses, an info text with a middle dot and an
\* address keyword, a phone, a first website anchor with an href, a status
\* span with text
AllMarkersReadable(f) ==
    /\ AllMarkers(f)
    /\ ParseFloat(CommaToPoint(Strip(f.rating[1].value[1]))) # None
    /\ \E n \in DOMAIN f.infos :
          KeywordIn(f.infos[n]) /\ \E k \in DOMAIN f.infos[n] : f.infos[n][k] = "MIDDOT"
    /\ \E n \in DOMAIN f.links :
          /\ TokensInARow(f.links[n])
          /\ Truthy(f.links[n].href)
          /\ \A m \in 1..(n - 1) : ~TokensInARow(f.links[m])
    /\ \E n \in DOMAIN f.spans :
          f.spans[n].color \in status_colors /\ Strip(f.spans[n].text) # <<>>

\* C13, amended: a fragment with every optional marker in readable form
\* gives a record whose rating, address, phone, website and open status are
\* not placeholders; the category is the placeholder unless a fixed
\* category is in force, and the city is the placeholder exactly when no
\* city is inferred from the address.
C13_ReadableNoPlaceholder ==
    (Produced /\ AllMarkersReadable(fragment)) =>
        /\ Rec.note # None
        /\ Rec.adresse \notin Placeholders
        /\ Rec.telephone \notin Placeholders
        /\ Rec.site_web \notin Placeholders
        /\ Rec.statut_ouverture \notin Placeholders
        /\ (Rec.type_entreprise \in Placeholders)
              <=> ~(has_attrs /\ Truthy(default_business_type))
        /\ (Rec.ville \in Placeholders)
              <=> (_extract_city_from_address(Rec.adresse) \in Placeholders)

\* the fragment with every marker, extracted with a fixed category in
\* force: no field is a placeholder
C13_Witness ==
    /\ Produced
    /\ fragment = FullFragment
    /\ Truthy(default_business_type)
    /\ \A f \in {"type_entreprise", "adresse", "ville", "telephone", "site_web",
                  "statut_ouverture"} : Rec[f] \notin Placeholders
    /\ Rec.note # None

\* C14: a rating text that does not parse as a number once its comma is a
\* point gives an absent rating, and the record is still returned when the
\* fragment has a name, so the fragment is not a failure.
C14_UnparsedRatingAbsent ==
    (/\ extracted # None
     /\ Named(fragment)
     /\ fragment.rating # None
     /\ fragment.rating[1].value # None
     /\ ParseFloat(CommaToPoint(Strip(fragment.rating[1].value[1]))) = None)
    => (Produced /\ Rec.note = None /\ Rec.nom = Strip(fragment.name[1]))

\* a record without rating and with its review count, from a rating text
\* "garbage"
C14_Witness ==
    /\ Produced
    /\ fragment.rating # None
    /\ fragment.rating[1].value = Some(<<"g","a","r","b","a","g","e">>)
    /\ Rec.note = None
    /\ Rec.nombre_avis = 128

\* s[k] opens and s[e] closes a parenthesized run of digits
ParenRun(s, k, e) ==
    /\ s[k] = "("
    /\ s[e] = ")"
    /\ e > k + 1
    /\ \A n \in (k + 1)..(e - 1) : s[n] \in Digits

\* the number in the leftmost parenthesized run of digits of s, 0 for none
CountIn(s) ==
    LET runs == { r \in (1..Len(s)) \X (1..Len(s)) : ParenRun(s, r[1], r[2]) }
    IN  IF runs = {} THEN 0
        ELSE LET first == CHOOSE r \in runs : \A q \in runs : r[1] <= q[1]
             IN  IntOfDigits(SubSeq(s, first[1] + 1, first[2] - 1))

\* C15: the review count is the integer of the parenthesized run of digits
\* in the review element of the rating container, 0 when the container,
\* the element or the run is missing, and never negative.
C15_ReviewCount ==
    Produced =>
        /\ Rec.nombre_avis =
              IF fragment.rating = None THEN 0
              ELSE IF fragment.rating[1].reviews = None THEN 0
              ELSE CountIn(Strip(fragment.rating[1].reviews[1]))
        /\ Rec.nombre_avis >= 0

\* the count 128 read from "(128)", and 0 from a review text without
\* parentheses
C15_Witness ==
    /\ Produced
    /\ fragment.rating # None
    /\ \/ Rec.nombre_avis = 128
       \/ (fragment.rating[1].reviews # None /\ Rec.nombre_avis = 0)

\* the text the claim has stored for an info text with a keyword: its
\* first middle-dot segment with a keyword, or the text itself when it has
\* no middle dot
ChosenText(text) ==
    LET t    == Strip(text)
        dots == { k \in 1..Len(t) : t[k] = "MIDDOT" }
        segs == Split(t, "MIDDOT")
        with == { n \in DOMAIN segs : KeywordIn(segs[n]) }
    IN  IF dots = {} THEN t
        ELSE Strip(segs[CHOOSE n \in with : \A m \in with : n <= m])

\* C16: when some info text holds an address keyword, the address of the
\* record is the chosen text of such an info text; it is the placeholder
\* only when no info text holds a keyword.
C16_AddressStored ==
    Produced =>
        LET candidates == { n \in DOMAIN fragment.infos : KeywordIn(fragment.infos[n]) }
        IN  IF candidates = {} THEN Rec.adresse = NonSpecifiee
            ELSE \E n \in candidates : Rec.adresse = ChosenText(fragment.infos[n])

\* C17: the city of a record is the placeholder when its address is the
\* placeholder, and the city inferred from the stored address otherwise.
C17_CityFromAddress ==
    Produced =>
        /\ Rec.adresse = NonSpecifiee => Rec.ville = NonSpecifiee
        /\ Rec.adresse # NonSpecifiee =>
              /\ Rec.ville = _extract_city_from_address(Rec.adresse)
              /\ \E n \in DOMAIN fragment.infos :
                    Rec.adresse \in { Strip(seg) : seg \in Range(Split(Strip(fragment.infos[n]), "MIDDOT")) }

\* Nice, the city of the address segment, and not Lyon, which the text
\* names before the middle dot
C17_Witness ==
    /\ Produced
    /\ fragment.infos = <<InfoTwoCities>>
    /\ Rec.adresse = <<"2"," ","P","l","a","c","e"," ","B",","," ","N","i","c","e">>
    /\ Rec.ville = <<"N","i","c","e">>

\* C18 as stated: the website is the href of the first anchor whose class
\* holds both marker tokens, wherever they stand, and the placeholder when
\* there is no such anchor.
C18_WebsiteAnyOrder ==
    Produced =>
        LET hits == { n \in DOMAIN fragment.links : BothTokens(fragment.links[n]) }
        IN  IF hits = {} THEN Rec.site_web = NonSpecifie
            ELSE LET first == fragment.links[CHOOSE n \in hits : \A m \in hits : n <= m]
                 IN  Truthy(first.href) => Rec.site_web = first.href[1]

\* C18, amended: the website is the href of the first anchor whose class
\* reads lcr4fd, whitespace, S9kvJb, when that href is not empty; with no
\* such anchor, or no href on it, the website is the placeholder.
C18_WebsiteTokensInARow ==
    Produced =>
        LET hits == { n \in DOMAIN fragment.links : TokensInARow(fragment.links[n]) }
        IN  IF hits = {} THEN Rec.site_web = NonSpecifie
            ELSE LET first == fragment.links[CHOOSE n \in hits : \A m \in hits : n <= m]
                 IN  Rec.site_web = IF Truthy(first.href) THEN first.href[1]
                                    ELSE NonSpecifie

\* the href of the second anchor of a fragment whose first anchor has
\* another class
C18_Witness ==
    /\ Produced
    /\ fragment.links = <<AnchorOther, AnchorPlain>>
    /\ Rec.site_web = AnchorPlain.href[1]

\* C19 as stated: with several spans of a status colour, the open status
\* is the text of the last of them.
C19_LastSpanWins ==
    Produced =>
        LET hits == { n \in DOMAIN fragment.spans :
                        fragment.spans[n].color \in status_colors }
        IN  Cardinality(hits) >= 2 =>
                Rec.statut_ouverture =
                    Strip(fragment.spans[CHOOSE n \in hits : \A m \in hits : m <= n].text)

\* C19, amended: the open status is the text of the last span that has a
\* status colour and a text that is not empty; the placeholder when there
\* is no such span.
C19_LastSpanWithTextWins ==
    Produced =>
        LET hits == { n \in DOMAIN fragment.spans :
                        /\ fragment.spans[n].color \in status_colors
                        /\ Strip(fragment.spans[n].text) # <<>> }
        IN  Rec.statut_ouverture =
                IF hits = {} THEN NonSpecifie
                ELSE Strip(fragment.spans[CHOOSE n \in hits : \A m \in hits : m <= n].text)

\* two status spans with text: the second one gave the status
C19_Witness ==
    /\ Produced
    /\ fragment.spans = <<SpanOpen, SpanClosed>>
    /\ Rec.statut_ouverture = <<"F","e","r","m","e">>

RECURSIVE Pow10(_)
Pow10(n) == IF n = 0 THEN 1 ELSE 10 * Pow10(n - 1)

\* C20: the rating of a record is absent or a number from 0.0 to 5.0.
C20_RatingInRange ==
    Produced =>
        \/ Rec.note = None
        \/ /\ ~Rec.note[1].neg
           /\ Rec.note[1].num <= 5 * Pow10(Rec.note[1].scale)

\* the names of the first n records, in order
RECURSIVE NamesOf(_, _)
NamesOf(records, n) ==
    IF n = 0 THEN <<>> ELSE Append(NamesOf(records, n - 1), records[n].nom)

\* C21: the delivery loop of process_html_file takes the records one by
\* one in extraction order; each step asks the duplicate check for the
\* exact name of the record, then either counts a duplicate and sends
\* nothing, or sends that record and counts a success or an error; the
\* statistics returned after the loop have total = success + errors +
\* duplicates, with total the number of records.
C21_DeliveryOrder ==
    [][ /\ (pc = "deliver" /\ pc' = "deliver") =>
              /\ pos' = pos + 1
              /\ checked' = Append(checked, report[1].records[pos].nom)
              /\ (success_count' + error_count' + duplicate_count')
                    = (success_count + error_count + duplicate_count) + 1
              /\ success_count' >= success_count
              /\ error_count' >= error_count
              /\ duplicate_count' >= duplicate_count
              /\ IF duplicate_count' = duplicate_count + 1
                 THEN sent' = sent
                 ELSE /\ Len(sent') = Len(sent) + 1
                      /\ sent'[Len(sent')].Nom = report[1].records[pos].nom
        /\ pc' = "deliver" =>
              /\ checked' = NamesOf(report'[1].records, pos' - 1)
              /\ Len(sent') = success_count' + error_count'
        /\ (pc = "deliver" /\ pc' = "done") =>
              /\ pos = Len(report[1].records) + 1
              /\ stats'[1].total = Len(report[1].records)
              /\ stats'[1].total = stats'[1].success + stats'[1].errors
                                     + stats'[1].duplicates
              /\ stats'[1].duplicates = Len(checked) - Len(sent)
    ]_vars

\* a run of two records ended: the first was a duplicate, the second was
\* sent and accepted
C21_Witness ==
    /\ pc = "done"
    /\ stats # None
    /\ "duplicates" \in DOMAIN stats[1]
    /\ stats[1].total = 2
    /\ stats[1].duplicates = 1
    /\ stats[1].success = 1
    /\ Len(checked) = 2
    /\ Len(sent) = 1
    /\ sent[1].Nom = checked[2]
    /\ checked[1] # checked[2]

\* C22: in every record the address, the city, the phone, the website and
\* the open status are each a text that is not empty: an extracted text or
\* the placeholder, also when the marker element holds no text.
C22_NoEmptyText ==
    Produced =>
        \A f \in {"adresse", "ville", "telephone", "site_web", "statut_ouverture"} :
            Rec[f] # <<>>

\* the text is made of digits only
AllDigits(t) == t # <<>> /\ \A k \in DOMAIN t : t[k] \in Digits

\* C23: the city sent for a record is the fixed city, trimmed, whenever a
\* fixed city is set, whatever the city of the record; with none set it is
\* the placeholder when the city of the record is the placeholder, blank
\* or a number, and otherwise the city of the record, trimmed, without a
\* leading number and with capitalized words.
C23_SentCity ==
    page # None =>
        LET ville == Rec.ville
            t     == Strip(ville)
            words == SplitWords(t, <<>>)
            kept  == IF Len(words) > 1 /\ AllDigits(words[1])
                     THEN JoinWords(Tail(words)) ELSE t
        IN  IF has_attrs /\ Truthy(default_city)
            THEN page[1].Ville = Strip(default_city[1])
            ELSE /\ page[1].Ville # <<>>
                 /\ (page[1].Ville = NonSpecifiee)
                       <=> (ville = NonSpecifiee \/ t = <<>> \/ AllDigits(t))
                 /\ page[1].Ville # NonSpecifiee =>
                       /\ Lower(page[1].Ville) = Lower(kept)
                       /\ page[1].Ville[1] \notin AsciiLower

\* Nantes, given with a leading space, was sent for a record whose own
\* city is Paris
C23_Witness ==
    /\ page # None
    /\ default_city = Some(<<" ","N","a","n","t","e","s">>)
    /\ Rec.ville = <<"P","a","r","i","s">>
    /\ page[1].Ville = <<"N","a","n","t","e","s">>

=============================================================================
